---- MODULE Spec2Model ----
(***************************************************************************)
(* Dual-provider response orchestrator of DeepTHINK254/Deepthink.          *)
(*                                                                         *)
(* Spec        : the request/response paths that call the providers        *)
(*               synchronously: POST / (routes/ask.ts), POST /chat         *)
(*               (askRoutes) behind the checkQuota middleware, and the     *)
(*               WebSocket chat message (handleChatMessage), with the      *)
(*               response caches, the user's usage quota and the ApiUsage  *)
(*               collection they share.                                    *)
(* SpecStream  : one server-sent-event streaming request (POST /stream,    *)
(*               POST /chat/stream) through streamOpenAIResponse,          *)
(*               streamDeepSeekResponse and streamMergedResponses.         *)
(* SpecQuota   : POST /chat requests for DeepSeek only, the quota          *)
(*               middleware racing with trackUsage.                        *)
(* SpecSession : the WebSocketService: connections, the liveness probe,    *)
(*               and the auth, chat, typing and history handlers with the  *)
(*               Conversation collection. At most one chat or history      *)
(*               handler of a connection is awaiting at a time.            *)
(* SpecCache   : POST / requests with two prompts on a response cache      *)
(*               that holds MaxKeys keys.                                  *)
(* SpecMerge   : one call of mergeResponses on two bounded texts.          *)
(* SpecRetry   : one completion asked of one provider client, under        *)
(*               backOff (synchronous) or not (streaming).                 *)
(* SpecOptions : one request body's temperature and maxTokens through      *)
(*               validateRequest, the route's options and the client.      *)
(*                                                                         *)
(* A text is a sequence of characters; a literal of the source that is     *)
(* longer than one character is one element holding the literal.           *)
(* Time is counted in ticks; the quota period and the cache TTL are scaled *)
(* to a few ticks.                                                         *)
(***************************************************************************)
EXTENDS Integers, Sequences, FiniteSets, TLC

\* ---------------------------------------------------------------- bounds
\* concurrent / successive requests of the one identity
NReq == 2
\* the same in SpecQuota, where every request is POST /chat with deepseek
NQuotaReq == 3
\* last instant of the clock
MaxTime == 2
\* length of a quota period (a calendar month) in ticks
PeriodLen == 1
\* stdTTL of the response cache in ticks
TTL == 2
\* largest usage.total_tokens a provider reports for one call
MaxTok == 2
\* usageQuota.monthly of the identity
Monthly == 2
\* most chunks a provider's token stream delivers
MaxDeltas == 2
\* the WebSocket connections
NConn == 2
\* most inbound messages of all connections together
MaxMsgs == 3
\* most liveness probe rounds
MaxRounds == 2
\* maxKeys of responseCache, scaled down
MaxKeys == 1
\* the requests of SpecCache
NCacheReq == 2
\* the longest text handed to mergeResponses in SpecMerge
MaxTextLen == 3

Reqs == 1..NReq
Providers == {"openai", "deepseek"}
\* "none" is a request body without modelPreference
Prefs == {"openai", "deepseek", "hybrid", "none"}
\* "ask" = POST / of routes/ask.ts, "chat" = POST /chat of askRoutes,
\* "ws" = a chat message on an authenticated WebSocket connection
Routes == {"ask", "chat", "ws"}
\* preferences.defaultModel: the schema default, or a value stored through
\* PUT /preferences
DefaultModels == {"deepseek-v3", "hybrid"}

\* what each provider answers when it succeeds
OpenAITexts == {<<"o">>}
DeepSeekTexts == {<<"d", "d">>}
TextsOf(p) == IF p = "openai" THEN OpenAITexts ELSE DeepSeekTexts

VARIABLES
  now,           \* the clock (Date.now / new Date())
  user,          \* the User document: usageQuota and preferences
  apiUsage,      \* the ApiUsage collection, in insertion order
  responseCache, \* lib/store responseCache (NodeCache) used by POST /
  cache,         \* utils/cache used by POST /chat
  requestStore,  \* lib/store requestStore counters
  req,           \* each request's position, input and response
  call,          \* each request's provider calls
  sinceReset,    \* tokens added to used since the reset date was last advanced
  st,            \* the streaming request (SpecStream)
  conn,          \* the WebSocket connections (SpecSession)
  hand,          \* each connection's message handler in flight
  conversations, \* the Conversation collection, by session id
  rounds,        \* the liveness probe rounds run so far
  mrg,           \* one call of mergeResponses: arguments and result (SpecMerge)
  bo,            \* one provider request under backOff (SpecRetry)
  opt            \* one request's sampling options (SpecOptions)

\* the state of the WebSocket service
sessVars == <<conn, hand, conversations, rounds>>

\* the single calls the small specifications look at
unitVars == <<mrg, bo, opt>>

\* the state of the HTTP routes
progVars == <<now, user, apiUsage, responseCache, cache, requestStore, req,
              call, sinceReset, st>>

vars == <<now, user, apiUsage, responseCache, cache, requestStore, req, call,
          sinceReset, st, conn, hand, conversations, rounds, mrg, bo, opt>>

\* ------------------------------------------------------------ pure parts

\* the mutation of mergeResponses that prefers a text from 1.5 times the
\* length of the other on
mergeResponsesFrom(openaiResponse, deepseekResponse) ==
  IF openaiResponse = <<>> /\ deepseekResponse = <<>>
    THEN <<"No response from either model.">>
  ELSE IF openaiResponse = <<>> THEN deepseekResponse
  ELSE IF deepseekResponse = <<>> THEN openaiResponse
  ELSE IF 2 * Len(openaiResponse) >= 3 * Len(deepseekResponse)
    THEN openaiResponse
           \o <<"\n\n(DeepSeek provided a shorter response that was not included)">>
  ELSE IF 2 * Len(deepseekResponse) >= 3 * Len(openaiResponse)
    THEN deepseekResponse
           \o <<"\n\n(OpenAI provided a shorter response that was not included)">>
  ELSE <<"\n## OpenAI Response\n">> \o openaiResponse
         \o <<"\n\n## DeepSeek Response\n">> \o deepseekResponse
         \o <<"\n\n## Combined Analysis\n">>

\* responseUtils.mergeResponses
mergeResponses(openaiResponse, deepseekResponse) ==
  IF openaiResponse = <<>> /\ deepseekResponse = <<>>
    THEN <<"No response from either model.">>
  ELSE IF openaiResponse = <<>> THEN deepseekResponse
  ELSE IF deepseekResponse = <<>> THEN openaiResponse
  ELSE IF 2 * Len(openaiResponse) > 3 * Len(deepseekResponse)
    THEN openaiResponse
           \o <<"\n\n(DeepSeek provided a shorter response that was not included)">>
  ELSE IF 2 * Len(deepseekResponse) > 3 * Len(openaiResponse)
    THEN deepseekResponse
           \o <<"\n\n(OpenAI provided a shorter response that was not included)">>
  ELSE <<"\n## OpenAI Response\n">> \o openaiResponse
         \o <<"\n\n## DeepSeek Response\n">> \o deepseekResponse
         \o <<"\n\n## Combined Analysis\n">>

\* WebSocketService.mergeResponses
wsMergeResponses(response1, response2) ==
  <<"\n## First AI Response\n">> \o response1
    \o <<"\n\n## Second AI Response\n">> \o response2
    \o <<"\n\n## Combined Analysis\n">>

\* new Date(now.getFullYear(), now.getMonth() + 1, 1)
NextPeriodStart(t) == ((t \div PeriodLen) + 1) * PeriodLen

\* model.startsWith("deepseek")
startsWithDeepseek(m) == m \in {"deepseek", "deepseek-v3"}

\* the cache key of POST / : prompt, context, temperature and maxTokens only
askCacheKey(r) == <<req[r].prompt>>
\* the cache key of POST /chat : the same followed by modelPreference
chatCacheKey(r) == <<req[r].prompt, req[r].pref>>

\* NodeCache.get: the live entries under a key
cacheGet(c, key) == {e \in c : e.key = key /\ now < e.expires}
\* NodeCache.set throws when maxKeys keys are stored and the key is a new one
cacheFull(c, key) ==
  /\ \A e \in c : e.key # key
  /\ Cardinality(c) >= MaxKeys
\* NodeCache.set: the entry replaces the key's old one and lives for stdTTL
cacheSet(c, key, value, pref) ==
  {e \in c : e.key # key}
    \cup {[key |-> key, value |-> value, expires |-> now + TTL, pref |-> pref,
           at |-> now]}

\* a response body: raw holds the openaiResponse / deepseekResponse fields
\* the cache of utils/cache that POST /chat uses: a TTL cache like
\* responseCache, as the specification of the response cache describes it
chatCacheGet(key) == cacheGet(cache, key)
chatCacheSet(key, value, pref) == cacheSet(cache, key, value, pref)

NoResult == [response |-> <<>>, modelUsed |-> "", raw |-> {}]
IdleCall == [state |-> "idle", text |-> <<>>, tokens |-> 0]

\* requestStore.trackRequest
trackRequest(success) ==
  [total |-> requestStore.total + 1,
   successful |-> requestStore.successful + (IF success THEN 1 ELSE 0),
   failed |-> requestStore.failed + (IF success THEN 0 ELSE 1)]

\* a provider's token stream: the deltas it has yet to deliver and those it did
NoStream == [state |-> "notStarted", pending |-> <<>>, got |-> <<>>]

\* the streaming request before it arrives. out is what was written to the
\* response, ended counts the calls of res.end(), aborted is set when the
\* route's catch block hands the error to next()
StreamIdle ==
  [pc |-> "idle", route |-> "ask", pref |-> "none", out |-> <<>>, ended |-> 0,
   aborted |-> FALSE, stream |-> [p \in Providers |-> NoStream],
   openaiDone |-> FALSE, deepseekDone |-> FALSE,
   openaiBuffer |-> <<>>, deepseekBuffer |-> <<>>, totalTokens |-> 0]

\* the WebSocket connections, and the fresh id uuidv4() gives connection c
Conns == 1..NConn
Uuid(c) == <<"uuid", c>>
\* the session ids a client may supply, and all session ids
SuppliedIds == {<<"s1">>}
SessionIds == SuppliedIds \cup {Uuid(c) : c \in Conns}
NoId == <<>>
\* the identities a valid token decodes to
UserIds == {"u1"}

\* a WebSocketClient before its connection event. events is what ws.send
\* delivered, msgs counts its inbound messages, lastIn is the last of them,
\* dropped tells that send was called while it was not open, closedAt is
\* the number of events delivered when it closed, unanswered tells that a
\* ping was sent to it and no pong has come since
NoConn ==
  [readyState |-> "none", inClients |-> FALSE, isAlive |-> FALSE,
   userId |-> "", sessionId |-> NoId, events |-> <<>>, msgs |-> 0,
   lastIn |-> [type |-> "none", sessionId |-> NoId],
   dropped |-> FALSE, closedAt |-> 0, unanswered |-> FALSE]

\* no handler is awaiting for the connection. ex numbers the connection's
\* chat exchanges, last is the outcome of the latest one
NoHandler ==
  [pc |-> "idle", ex |-> 0, sid |-> NoId, bound |-> NoId, pref |-> "none",
   model |-> "", invoked |-> {}, res |-> [p \in Providers |-> "idle"],
   tokens |-> 0, last |-> "none"]

InitProg(n) ==
  /\ now = 0
  /\ \E dm \in DefaultModels :
       user = [used |-> 0, monthly |-> Monthly, resetDate |-> PeriodLen,
               defaultModel |-> dm]
  /\ apiUsage = <<>>
  /\ responseCache = {}
  /\ cache = {}
  /\ requestStore = [total |-> 0, successful |-> 0, failed |-> 0]
  /\ req = [r \in 1..n |->
              [pc |-> "idle", route |-> "ask", pref |-> "none",
               prompt |-> "prompt", outcome |-> "none", result |-> NoResult, docNow |-> 0,
               docUsed |-> 0, invoked |-> {}, writes |-> 0, fresh |-> FALSE,
               priorExpires |-> 0]]
  /\ call = [r \in 1..n |-> [p \in Providers |-> IdleCall]]
  /\ sinceReset = 0
  /\ st = StreamIdle
  /\ conn = [c \in Conns |-> NoConn]
  /\ hand = [c \in Conns |-> NoHandler]
  /\ conversations = [sid \in SessionIds |-> <<>>]
  /\ rounds = 0

\* no call of the small specifications is under way
NoMerge == [openaiResponse |-> <<>>, deepseekResponse |-> <<>>,
            merged |-> <<>>, pc |-> "idle"]
NoBackOff == [pc |-> "idle", provider |-> "", mode |-> "", attemptNumber |-> 0,
              attempts |-> 0, delays |-> <<>>, errors |-> <<>>,
              result |-> <<>>]
NoOptions == [pc |-> "idle", provider |-> "",
              temperature |-> [given |-> FALSE, v |-> 0],
              maxTokens |-> [given |-> FALSE, v |-> 0],
              options |-> [temperature |-> 0, maxTokens |-> 0],
              sent |-> [temperature |-> 0, max_tokens |-> 0]]

InitOf(n) ==
  /\ InitProg(n)
  /\ mrg = NoMerge
  /\ bo = NoBackOff
  /\ opt = NoOptions

Init == InitOf(NReq)

\* the clock advances
Tick ==
  /\ now < MaxTime
  /\ now' = now + 1
  /\ UNCHANGED <<user, apiUsage, responseCache, cache, requestStore, req, call,
                 sinceReset, st>>
  /\ UNCHANGED <<sessVars, unitVars>>

\* ------------------------------------------------- requests (Spec)

\* the entries a request with r's parameters could be answered from, stored by
\* a request with the same fingerprint (preference included)
SameFingerprintEntries(route, pref, prompt) ==
  IF route = "ask"
    THEN {e \in cacheGet(responseCache, <<prompt>>) : e.pref = pref}
    ELSE IF route = "chat"
      THEN {e \in chatCacheGet(<<prompt, pref>>) : e.pref = pref}
      ELSE {}

\* the instant the last of the entries expires; 0 when there is none
LatestExpiry(entries) ==
  IF entries = {} THEN 0
  ELSE CHOOSE t \in {e.expires : e \in entries} :
         \A e \in entries : e.expires <= t

\* a request arrives: POST / , POST /chat (authenticate passed) or a
\* "message" frame on an authenticated connection. Slots are taken in order.
IssueOf(r, routes, prefs, prompts) ==
  /\ req[r].pc = "idle"
  /\ \A q \in 1..(r - 1) : req[q].pc # "idle"
  /\ \E route \in routes, pref \in prefs, prompt \in prompts :
       req' = [req EXCEPT ![r] =
                 [@ EXCEPT !.pc = CASE route = "ask" -> "handler"
                                    [] route = "chat" -> "checkQuota"
                                    [] OTHER -> "wsQuota",
                           !.route = route,
                           !.pref = pref,
                           !.prompt = prompt,
                           !.priorExpires =
                              LatestExpiry(SameFingerprintEntries(route, pref,
                                                                  prompt))]]
  /\ UNCHANGED <<now, user, apiUsage, responseCache, cache, requestStore, call,
                 sinceReset, st>>
  /\ UNCHANGED <<sessVars, unitVars>>

Issue(r) == IssueOf(r, Routes, Prefs, {"prompt"})

\* authMiddleware.checkQuota up to its first await after User.findById: the
\* document is read; a due reset goes on to user.save(), otherwise used is
\* compared with monthly at once
checkQuota(r) ==
  /\ req[r].pc = "checkQuota"
  /\ IF now > user.resetDate
       THEN req' = [req EXCEPT ![r].pc = "quotaSave", ![r].docNow = now,
                               ![r].docUsed = user.used]
       ELSE IF user.used >= user.monthly
         THEN req' = [req EXCEPT ![r].pc = "done", ![r].outcome = "quota",
                                 ![r].fresh = TRUE]
         ELSE req' = [req EXCEPT ![r].pc = "handler", ![r].fresh = TRUE]
  /\ UNCHANGED <<now, user, apiUsage, responseCache, cache, requestStore, call,
                 sinceReset, st>>
  /\ UNCHANGED <<sessVars, unitVars>>

\* authMiddleware.checkQuota, user.save() of the reset document and the
\* comparison that follows. save() writes the modified paths only: resetDate,
\* and used when the document read did not already hold 0.
checkQuotaSave(r) ==
  /\ req[r].pc = "quotaSave"
  /\ user' = [user EXCEPT
                !.used = IF req[r].docUsed # 0 THEN 0 ELSE @,
                !.resetDate = NextPeriodStart(req[r].docNow)]
  /\ sinceReset' = IF NextPeriodStart(req[r].docNow) > user.resetDate
                     THEN 0 ELSE sinceReset
  /\ req' = [req EXCEPT
               ![r].pc = IF 0 >= user.monthly THEN "done" ELSE "handler",
               ![r].outcome = IF 0 >= user.monthly THEN "quota" ELSE @,
               ![r].writes = @ + 1,
               ![r].fresh = TRUE]
  /\ UNCHANGED <<now, apiUsage, responseCache, cache, requestStore, call, st>>
  /\ UNCHANGED <<sessVars, unitVars>>

\* the execution plan of the HTTP routes: the clients a preference selects
httpPlan(pref) ==
  IF pref = "openai" THEN {"openai"}
  ELSE IF startsWithDeepseek(pref) THEN {"deepseek"}
  ELSE Providers

\* the provider clients of plan are invoked for r
Invoke(r, plan) ==
  [call EXCEPT ![r] = [p \in Providers |->
     IF p \in plan THEN [IdleCall EXCEPT !.state = "pending"] ELSE IdleCall]]

\* POST / of routes/ask.ts, from the cache lookup to the provider calls
askHandler(r) ==
  /\ req[r].pc = "handler" /\ req[r].route = "ask"
  /\ LET hit == cacheGet(responseCache, askCacheKey(r)) IN
       IF hit # {}
         THEN /\ \E e \in hit :
                   req' = [req EXCEPT ![r].pc = "done", ![r].outcome = "cached",
                                      ![r].result = e.value]
              /\ requestStore' = trackRequest(TRUE)
              /\ UNCHANGED call
         ELSE /\ call' = Invoke(r, httpPlan(req[r].pref))
              /\ req' = [req EXCEPT ![r].pc = "await",
                                    ![r].invoked = httpPlan(req[r].pref)]
              /\ UNCHANGED requestStore
  /\ UNCHANGED <<now, user, apiUsage, responseCache, cache, sinceReset, st>>
  /\ UNCHANGED <<sessVars, unitVars>>

\* POST /chat of askRoutes, from the cache lookup to the provider calls
chatHandler(r) ==
  /\ req[r].pc = "handler" /\ req[r].route = "chat"
  /\ LET hit == chatCacheGet(chatCacheKey(r)) IN
       IF hit # {}
         THEN /\ \E e \in hit :
                   req' = [req EXCEPT ![r].pc = "done", ![r].outcome = "cached",
                                      ![r].result = e.value]
              /\ UNCHANGED call
         ELSE /\ call' = Invoke(r, httpPlan(req[r].pref))
              /\ req' = [req EXCEPT ![r].pc = "await",
                                    ![r].invoked = httpPlan(req[r].pref)]
  /\ UNCHANGED <<now, user, apiUsage, responseCache, cache, requestStore,
                 sinceReset, st>>
  /\ UNCHANGED <<sessVars, unitVars>>

\* getOpenAIResponse settles: backOff returned a completion, or gave up.
\* The client records no usage.
getOpenAIResponse(r) ==
  /\ call[r]["openai"].state = "pending"
  /\ \/ \E text \in OpenAITexts, tokens \in 1..MaxTok :
          call' = [call EXCEPT ![r]["openai"] =
                     [state |-> "ok", text |-> text, tokens |-> tokens]]
     \/ call' = [call EXCEPT ![r]["openai"].state = "failed"]
  /\ UNCHANGED <<now, user, apiUsage, responseCache, cache, requestStore, req,
                 sinceReset, st>>
  /\ UNCHANGED <<sessVars, unitVars>>

\* options.userId is passed by POST /chat and by handleChatMessage only
hasUserId(r) == req[r].route \in {"chat", "ws"}

\* getDeepSeekResponse: backOff returned a completion, or gave up. With
\* options.userId the client goes on to trackUsage before it returns.
getDeepSeekResponse(r) ==
  /\ call[r]["deepseek"].state = "pending"
  /\ \/ \E text \in DeepSeekTexts, tokens \in 1..MaxTok :
          call' = [call EXCEPT ![r]["deepseek"] =
                     [state |-> IF hasUserId(r) THEN "trackCreate" ELSE "ok",
                      text |-> text, tokens |-> tokens]]
     \/ call' = [call EXCEPT ![r]["deepseek"].state = "failed"]
  /\ UNCHANGED <<now, user, apiUsage, responseCache, cache, requestStore, req,
                 sinceReset, st>>
  /\ UNCHANGED <<sessVars, unitVars>>

\* trackUsage, ApiUsage.create
trackUsageCreate(r) ==
  /\ call[r]["deepseek"].state = "trackCreate"
  /\ apiUsage' = Append(apiUsage,
       [req |-> r, model |-> "deepseek", tokensUsed |-> call[r]["deepseek"].tokens,
        timestamp |-> now])
  /\ call' = [call EXCEPT ![r]["deepseek"].state = "trackInc"]
  /\ req' = [req EXCEPT ![r].writes = @ + 1]
  /\ UNCHANGED <<now, user, responseCache, cache, requestStore, sinceReset, st>>
  /\ UNCHANGED <<sessVars, unitVars>>

\* trackUsage, updateOne $inc usageQuota.used
trackUsageInc(r) ==
  /\ call[r]["deepseek"].state = "trackInc"
  /\ user' = [user EXCEPT !.used = @ + call[r]["deepseek"].tokens]
  /\ sinceReset' = sinceReset + call[r]["deepseek"].tokens
  /\ call' = [call EXCEPT ![r]["deepseek"].state = "ok"]
  /\ req' = [req EXCEPT ![r].writes = @ + 1]
  /\ UNCHANGED <<now, apiUsage, responseCache, cache, requestStore, st>>
  /\ UNCHANGED <<sessVars, unitVars>>

\* the response body the HTTP routes build once the awaited calls fulfilled
httpResponse(r) ==
  IF req[r].pref = "openai"
    THEN [response |-> call[r]["openai"].text, modelUsed |-> "openai", raw |-> {}]
  ELSE IF startsWithDeepseek(req[r].pref)
    THEN [response |-> call[r]["deepseek"].text, modelUsed |-> req[r].pref,
          raw |-> {}]
  ELSE [response |-> mergeResponses(call[r]["openai"].text,
                                    call[r]["deepseek"].text),
        modelUsed |-> "hybrid",
        raw |-> {<<p, call[r][p].text>> : p \in Providers}]

\* await of one call, or Promise.all of both: fulfilled when every selected
\* call is, rejected as soon as one is
awaitFulfilled(r) == \A p \in req[r].invoked : call[r][p].state = "ok"
awaitRejected(r) == \E p \in req[r].invoked : call[r][p].state = "failed"

\* POST / of routes/ask.ts after the await: cache, count, respond; or the
\* catch block, which a throwing responseCache.set reaches as well
askComplete(r) ==
  /\ req[r].pc = "await" /\ req[r].route = "ask"
  /\ \/ /\ awaitFulfilled(r)
        /\ IF cacheFull(responseCache, askCacheKey(r))
             THEN /\ requestStore' = trackRequest(FALSE)
                  /\ req' = [req EXCEPT ![r].pc = "done",
                                        ![r].outcome = "error"]
                  /\ UNCHANGED responseCache
             ELSE /\ responseCache' = cacheSet(responseCache, askCacheKey(r),
                                               httpResponse(r), req[r].pref)
                  /\ requestStore' = trackRequest(TRUE)
                  /\ req' = [req EXCEPT ![r].pc = "done", ![r].outcome = "ok",
                                        ![r].result = httpResponse(r)]
     \/ /\ awaitRejected(r)
        /\ requestStore' = trackRequest(FALSE)
        /\ req' = [req EXCEPT ![r].pc = "done", ![r].outcome = "error"]
        /\ UNCHANGED responseCache
  /\ UNCHANGED <<now, user, apiUsage, cache, call, sinceReset, st>>
  /\ UNCHANGED <<sessVars, unitVars>>

\* POST /chat of askRoutes after the await: cache and respond; or next(error)
chatComplete(r) ==
  /\ req[r].pc = "await" /\ req[r].route = "chat"
  /\ \/ /\ awaitFulfilled(r)
        /\ cache' = chatCacheSet(chatCacheKey(r), httpResponse(r), req[r].pref)
        /\ req' = [req EXCEPT ![r].pc = "done", ![r].outcome = "ok",
                              ![r].result = httpResponse(r)]
     \/ /\ awaitRejected(r)
        /\ req' = [req EXCEPT ![r].pc = "done", ![r].outcome = "error"]
        /\ UNCHANGED cache
  /\ UNCHANGED <<now, user, apiUsage, responseCache, requestStore, call,
                 sinceReset, st>>
  /\ UNCHANGED <<sessVars, unitVars>>

\* handleChatMessage: modelPreference || user.preferences.defaultModel || "hybrid"
wsModel(pref) ==
  IF pref # "none" THEN pref
  ELSE IF user.defaultModel # "" THEN user.defaultModel
  ELSE "hybrid"

\* handleChatMessage: the clients the resolved model selects
wsPlan(model) ==
  IF model = "hybrid" THEN Providers
  ELSE IF startsWithDeepseek(model) THEN {"deepseek"}
  ELSE {"openai"}

\* handleChatMessage up to the quota comparison: User.findById, then used is
\* compared with monthly; the reset date is not looked at
wsQuota(r) ==
  /\ req[r].pc = "wsQuota"
  /\ req' = [req EXCEPT
               ![r].pc = IF user.used >= user.monthly THEN "done" ELSE "wsStart",
               ![r].outcome = IF user.used >= user.monthly THEN "quota" ELSE @,
               ![r].fresh = ~(now > user.resetDate)]
  /\ UNCHANGED <<now, user, apiUsage, responseCache, cache, requestStore, call,
                 sinceReset, st>>
  /\ UNCHANGED <<sessVars, unitVars>>

\* handleChatMessage after the user turn is saved: acknowledgment and typing
\* indicator are sent, the model is resolved and the clients are invoked
wsStart(r) ==
  /\ req[r].pc = "wsStart"
  /\ call' = Invoke(r, wsPlan(wsModel(req[r].pref)))
  /\ req' = [req EXCEPT ![r].pc = "await",
                        ![r].invoked = wsPlan(wsModel(req[r].pref))]
  /\ UNCHANGED <<now, user, apiUsage, responseCache, cache, requestStore,
                 sinceReset, st>>
  /\ UNCHANGED <<sessVars, unitVars>>

\* Promise.allSettled / await: every invoked call has fulfilled or rejected
allSettled(r) == \A p \in req[r].invoked : call[r][p].state \in {"ok", "failed"}

\* handleChatMessage after the provider calls: the content that is sent, or
\* the error event
wsComplete(r) ==
  /\ req[r].pc = "await" /\ req[r].route = "ws"
  /\ allSettled(r)
  /\ LET model == wsModel(req[r].pref)
         ds == call[r]["deepseek"]
         oa == call[r]["openai"]
     IN
       IF model = "hybrid"
         THEN IF ds.state = "ok" /\ oa.state = "ok"
                THEN req' = [req EXCEPT ![r].pc = "done", ![r].outcome = "ok",
                       ![r].result = [response |-> wsMergeResponses(ds.text, oa.text),
                                      modelUsed |-> "hybrid (deepseek + openai)",
                                      raw |-> {}]]
              ELSE IF ds.state = "ok"
                THEN req' = [req EXCEPT ![r].pc = "done", ![r].outcome = "ok",
                       ![r].result = [response |-> ds.text, modelUsed |-> "deepseek",
                                      raw |-> {}]]
              ELSE IF oa.state = "ok"
                THEN req' = [req EXCEPT ![r].pc = "done", ![r].outcome = "ok",
                       ![r].result = [response |-> oa.text, modelUsed |-> "openai",
                                      raw |-> {}]]
              ELSE req' = [req EXCEPT ![r].pc = "done", ![r].outcome = "error"]
       ELSE IF startsWithDeepseek(model)
         THEN IF ds.state = "ok"
                THEN req' = [req EXCEPT ![r].pc = "done", ![r].outcome = "ok",
                       ![r].result = [response |-> ds.text, modelUsed |-> model,
                                      raw |-> {}]]
                ELSE req' = [req EXCEPT ![r].pc = "done", ![r].outcome = "error"]
       ELSE IF oa.state = "ok"
         THEN req' = [req EXCEPT ![r].pc = "done", ![r].outcome = "ok",
                ![r].result = [response |-> oa.text, modelUsed |-> "openai",
                               raw |-> {}]]
         ELSE req' = [req EXCEPT ![r].pc = "done", ![r].outcome = "error"]
  /\ UNCHANGED <<now, user, apiUsage, responseCache, cache, requestStore, call,
                 sinceReset, st>>
  /\ UNCHANGED <<sessVars, unitVars>>

Next ==
  \/ Tick
  \/ \E r \in Reqs : Issue(r)
  \/ \E r \in Reqs : checkQuota(r)
  \/ \E r \in Reqs : checkQuotaSave(r)
  \/ \E r \in Reqs : askHandler(r)
  \/ \E r \in Reqs : chatHandler(r)
  \/ \E r \in Reqs : getOpenAIResponse(r)
  \/ \E r \in Reqs : getDeepSeekResponse(r)
  \/ \E r \in Reqs : trackUsageCreate(r)
  \/ \E r \in Reqs : trackUsageInc(r)
  \/ \E r \in Reqs : askComplete(r)
  \/ \E r \in Reqs : chatComplete(r)
  \/ \E r \in Reqs : wsQuota(r)
  \/ \E r \in Reqs : wsStart(r)
  \/ \E r \in Reqs : wsComplete(r)

Spec == Init /\ [][Next]_vars

\* ------------------------------------------------- SpecQuota
\* NQuotaReq requests of the identity, all POST /chat with modelPreference
\* deepseek: the quota middleware racing with trackUsage

InitQuota == InitOf(NQuotaReq)

IssueChat(r) == IssueOf(r, {"chat"}, {"deepseek"}, {"prompt"})

NextQuota ==
  \/ Tick
  \/ \E r \in DOMAIN req : IssueChat(r)
  \/ \E r \in DOMAIN req : checkQuota(r)
  \/ \E r \in DOMAIN req : checkQuotaSave(r)
  \/ \E r \in DOMAIN req : chatHandler(r)
  \/ \E r \in DOMAIN req : getDeepSeekResponse(r)
  \/ \E r \in DOMAIN req : trackUsageCreate(r)
  \/ \E r \in DOMAIN req : trackUsageInc(r)
  \/ \E r \in DOMAIN req : chatComplete(r)

SpecQuota == InitQuota /\ [][NextQuota]_vars

\* ------------------------------------------------- SpecCache
\* NCacheReq requests POST / for one provider, each with one of two prompts,
\* on a response cache that holds MaxKeys keys; the clock stands still

Prompts == {"prompt", "other"}

InitCache == InitOf(NCacheReq)

IssueAsk(r) == IssueOf(r, {"ask"}, {"openai", "deepseek"}, Prompts)

NextCache ==
  \/ \E r \in DOMAIN req : IssueAsk(r)
  \/ \E r \in DOMAIN req : askHandler(r)
  \/ \E r \in DOMAIN req : getOpenAIResponse(r)
  \/ \E r \in DOMAIN req : getDeepSeekResponse(r)
  \/ \E r \in DOMAIN req : askComplete(r)

SpecCache == InitCache /\ [][NextCache]_vars

\* ------------------------------------------------- claims on Spec, SpecQuota

\* the ApiUsage documents written for request r
RecordsOf(r) == {i \in 1..Len(apiUsage) : apiUsage[i].req = r}

\* no provider call or usage write is still under way
Quiescent ==
  \A r \in DOMAIN req : \A p \in Providers :
    call[r][p].state \in {"idle", "ok", "failed"}

\* tokens of the fulfilled provider calls made for the identity by requests 1..n
RECURSIVE FulfilledTokens(_)
FulfilledTokens(n) ==
  IF n = 0 THEN 0
  ELSE FulfilledTokens(n - 1)
         + (IF hasUserId(n) /\ call[n]["openai"].state = "ok"
              THEN call[n]["openai"].tokens ELSE 0)
         + (IF hasUserId(n) /\ call[n]["deepseek"].state = "ok"
              THEN call[n]["deepseek"].tokens ELSE 0)

\* C1: a finished request whose preference names one provider invoked no
\* client but that provider's (exactly that one unless it was answered from
\* the cache), and its response body carries that provider's text only, names
\* it as the model used and has no field of the other provider.
C1_SingleProviderOnly ==
  \A r \in DOMAIN req :
    (req[r].pc = "done" /\ req[r].pref \in Providers
       /\ req[r].outcome \in {"ok", "cached", "error"}) =>
      /\ req[r].invoked \subseteq {req[r].pref}
      /\ (req[r].outcome # "cached" => req[r].invoked = {req[r].pref})
      /\ (req[r].outcome \in {"ok", "cached"} =>
            /\ req[r].result.raw = {}
            /\ req[r].result.modelUsed = req[r].pref
            /\ req[r].result.response \in TextsOf(req[r].pref))

\* C2: a request without preference, or with preference hybrid, that got as
\* far as its provider calls invoked both clients, on the HTTP routes and on
\* the session path.
C2_UnspecifiedIsHybrid ==
  \A r \in DOMAIN req :
    (req[r].pref \in {"none", "hybrid"}
       /\ (req[r].pc = "await" \/ req[r].outcome \in {"ok", "error"})) =>
      req[r].invoked = Providers

\* C3: a synchronous request that was issued while an entry stored by an
\* earlier successful request with the same fingerprint was live, and that
\* finished before that entry expired, was answered from the cache, invoked
\* no provider and wrote nothing to the usage ledger.
C3_CacheIdempotence ==
  \A r \in DOMAIN req :
    (req[r].pc = "done" /\ req[r].route \in {"ask", "chat"}
       /\ now < req[r].priorExpires) =>
      /\ req[r].outcome = "cached"
      /\ req[r].invoked = {}
      /\ req[r].writes = 0

\* C4: the identity's used counter never exceeds its monthly allowance.
C4_UsedNeverExceedsAllowance == user.used <= user.monthly

\* C5: a finished hybrid request of which one provider call failed and the
\* other fulfilled did not fail: its response is the survivor's text, names
\* the survivor, and (for an identified request) exactly one usage record
\* was written for it, for the survivor.
C5_PartialHybridFailure ==
  \A r \in DOMAIN req : \A s \in Providers : \A f \in Providers \ {s} :
    (req[r].pc = "done" /\ req[r].invoked = Providers
       /\ call[r][s].state = "ok" /\ call[r][f].state = "failed") =>
      /\ req[r].outcome = "ok"
      /\ req[r].result.response = call[r][s].text
      /\ req[r].result.modelUsed = s
      /\ (hasUserId(r) =>
            /\ Cardinality(RecordsOf(r)) = 1
            /\ \A i \in RecordsOf(r) : apiUsage[i].model = s)

\* C6: every fulfilled provider call made for an identity has its usage
\* record, whichever provider it is, and while no period reset has been
\* written the used counter is the sum of the tokens of those calls.
C6_UsagePerSuccessfulCall ==
  /\ \A r \in DOMAIN req : \A p \in Providers :
       (hasUserId(r) /\ call[r][p].state = "ok") =>
         \E i \in RecordsOf(r) :
           apiUsage[i].model = p /\ apiUsage[i].tokensUsed = call[r][p].tokens
  /\ (Quiescent /\ user.resetDate = PeriodLen) =>
       user.used = FulfilledTokens(Len(req))

\* C7: no update of the used counter is lost: once every request has
\* settled, the counter holds at least the tokens that trackUsage added since
\* the reset date was last advanced, whatever the interleaving of the quota
\* middleware's check-and-reset with trackUsage.
C7_NoLostQuotaUpdates == Quiescent => user.used >= sinceReset

\* C8: a request made for an identity that has invoked a provider had its
\* quota compared with the period reset applied if it was due.
C8_ResetBeforeProvider ==
  \A r \in DOMAIN req :
    (hasUserId(r) /\ req[r].invoked # {}) => req[r].fresh

\* ------------------------------------------------- streaming (SpecStream)

\* the delta sequences provider p may deliver; "" is a chunk without content
RECURSIVE SeqsUpTo(_, _)
SeqsUpTo(S, n) ==
  IF n = 0 THEN {<<>>}
  ELSE SeqsUpTo(S, n - 1)
         \cup {Append(q, x) : q \in {y \in SeqsUpTo(S, n - 1) : Len(y) = n - 1},
                              x \in S}
DeltaSeqs(p) == SeqsUpTo({"", IF p = "openai" THEN "o" ELSE "d"}, MaxDeltas)

\* one server-sent event: data: {content, model, buffer?, final?} or {error}
Event(kind, model, content, buffer) ==
  [kind |-> kind, model |-> model, content |-> content, buffer |-> buffer]

\* the stream routes' dispatch on modelPreference: POST /stream compares with
\* "deepseek", POST /chat/stream tests the prefix
isMerged(s) ==
  /\ s.pref # "openai"
  /\ IF s.route = "ask" THEN s.pref # "deepseek" ELSE ~startsWithDeepseek(s.pref)

\* the mutation of checkBothDone that ends the response as soon as one
\* provider is done
checkBothDoneEither(s) ==
  IF s.openaiDone \/ s.deepseekDone
    THEN [s EXCEPT
            !.out = Append(@, Event("final", "merged",
                      <<"\n\n## Final Merged Response\n">>
                        \o mergeResponses(s.openaiBuffer, s.deepseekBuffer), <<>>)),
            !.ended = @ + 1]
    ELSE s

\* streamMergedResponses.checkBothDone
checkBothDone(s) ==
  IF s.openaiDone /\ s.deepseekDone
    THEN [s EXCEPT
            !.out = Append(@, Event("final", "merged",
                      <<"\n\n## Final Merged Response\n">>
                        \o mergeResponses(s.openaiBuffer, s.deepseekBuffer), <<>>)),
            !.ended = @ + 1]
    ELSE s

\* the stream routes after the awaited stream function returned:
\* (trackRequest(true),) res.end()
routeEnd(s) == [s EXCEPT !.pc = "done", !.ended = @ + 1]

\* the stream routes' catch block: (trackRequest(false),) next(error); the
\* error handler cannot answer on a response whose headers were sent
routeCatch(s) == [s EXCEPT !.pc = "done", !.aborted = TRUE]

\* requestStore after the step that takes the streaming request to s
countStream(s) ==
  IF s.pc = "done" /\ s.route = "ask" THEN trackRequest(~s.aborted)
  ELSE requestStore

\* streamMergedResponses, the catch around the OpenAI stream (also reached
\* when the awaited streamOpenAIResponse resolves: it resolves to undefined,
\* so attaching the listeners throws), then the DeepSeek request starts
mergedOpenAIDone(s) ==
  [checkBothDone([s EXCEPT !.openaiDone = TRUE]) EXCEPT !.pc = "dsCreate"]

\* streamMergedResponses, the catch around the DeepSeek stream, after which
\* the function returns to the route
mergedDeepSeekDone(s) ==
  routeEnd(checkBothDone([s EXCEPT !.deepseekDone = TRUE]))

\* streamOpenAIResponse's catch block: the error event is written when res
\* was passed, and the error is thrown on
openaiThrown(s) ==
  IF isMerged(s) THEN mergedOpenAIDone(s)
  ELSE routeCatch([s EXCEPT !.out = Append(@, Event("error", "", <<>>, <<>>))])

\* streamDeepSeekResponse's catch block
deepseekThrown(s) ==
  IF isMerged(s) THEN mergedDeepSeekDone(s)
  ELSE routeCatch([s EXCEPT !.out = Append(@, Event("error", "", <<>>, <<>>))])

\* POST /stream or POST /chat/stream arrives (the middleware passed): the SSE
\* headers are set and the preference selects the stream function;
\* streamMergedResponses writes its header event first
streamRoute ==
  /\ st.pc = "idle"
  /\ \E route \in {"ask", "chat"}, pref \in Prefs :
       LET s == [st EXCEPT !.route = route, !.pref = pref] IN
         st' = IF isMerged(s)
                 THEN [s EXCEPT !.pc = "oaCreate",
                                !.out = <<Event("system", "system",
                                   <<"Starting both models in parallel...\n\n">>,
                                   <<>>)>>]
               ELSE IF pref = "openai" THEN [s EXCEPT !.pc = "oaCreate"]
               ELSE [s EXCEPT !.pc = "dsCreate"]
  /\ UNCHANGED <<now, user, apiUsage, responseCache, cache, requestStore, req,
                 call, sinceReset>>
  /\ UNCHANGED <<sessVars, unitVars>>

\* streamOpenAIResponse, openai.chat.completions.create({stream: true})
streamOpenAICreate ==
  /\ st.pc = "oaCreate"
  /\ \/ \E d \in DeltaSeqs("openai") :
          st' = [st EXCEPT !.pc = "oaRead",
                           !.stream["openai"] =
                              [state |-> "open", pending |-> d, got |-> <<>>]]
     \/ st' = openaiThrown([st EXCEPT !.stream["openai"].state = "failed"])
  /\ requestStore' = countStream(st')
  /\ UNCHANGED <<now, user, apiUsage, responseCache, cache, req, call,
                 sinceReset>>
  /\ UNCHANGED <<sessVars, unitVars>>

\* streamOpenAIResponse, one turn of for await (const chunk of stream)
streamOpenAIChunk ==
  /\ st.pc = "oaRead"
  /\ st.stream["openai"].pending # <<>>
  /\ LET content == Head(st.stream["openai"].pending) IN
       st' = [st EXCEPT
                !.stream["openai"].pending = Tail(@),
                !.stream["openai"].got = Append(@, content),
                !.out = IF content # "" /\ ~isMerged(st)
                          THEN Append(@, Event("delta", "openai", <<content>>, <<>>))
                          ELSE @]
  /\ UNCHANGED <<now, user, apiUsage, responseCache, cache, requestStore, req,
                 call, sinceReset>>
  /\ UNCHANGED <<sessVars, unitVars>>

\* streamOpenAIResponse, the stream is exhausted and the function returns
streamOpenAIEnd ==
  /\ st.pc = "oaRead"
  /\ st.stream["openai"].pending = <<>>
  /\ LET s == [st EXCEPT !.stream["openai"].state = "ended"] IN
       st' = IF isMerged(s) THEN mergedOpenAIDone(s) ELSE routeEnd(s)
  /\ requestStore' = countStream(st')
  /\ UNCHANGED <<now, user, apiUsage, responseCache, cache, req, call,
                 sinceReset>>
  /\ UNCHANGED <<sessVars, unitVars>>

\* streamOpenAIResponse, the stream breaks while it is read
streamOpenAIError ==
  /\ st.pc = "oaRead"
  /\ st' = openaiThrown([st EXCEPT !.stream["openai"].state = "failed"])
  /\ requestStore' = countStream(st')
  /\ UNCHANGED <<now, user, apiUsage, responseCache, cache, req, call,
                 sinceReset>>
  /\ UNCHANGED <<sessVars, unitVars>>

\* streamDeepSeekResponse, the axios request with responseType stream
streamDeepSeekCreate ==
  /\ st.pc = "dsCreate"
  /\ \/ \E d \in DeltaSeqs("deepseek") :
          st' = [st EXCEPT !.pc = "dsRead",
                           !.stream["deepseek"] =
                              [state |-> "open", pending |-> d, got |-> <<>>]]
     \/ st' = deepseekThrown([st EXCEPT !.stream["deepseek"].state = "failed"])
  /\ requestStore' = countStream(st')
  /\ UNCHANGED <<now, user, apiUsage, responseCache, cache, req, call,
                 sinceReset>>
  /\ UNCHANGED <<sessVars, unitVars>>

\* streamDeepSeekResponse, response.data.on("data")
streamDeepSeekChunk ==
  /\ st.pc = "dsRead"
  /\ st.stream["deepseek"].pending # <<>>
  /\ LET content == Head(st.stream["deepseek"].pending) IN
       st' = [st EXCEPT
                !.stream["deepseek"].pending = Tail(@),
                !.stream["deepseek"].got = Append(@, content),
                !.totalTokens = IF content # "" THEN @ + 1 ELSE @,
                !.out = IF content # "" /\ ~isMerged(st)
                          THEN Append(@, Event("delta", "deepseek-v3",
                                               <<content>>, <<>>))
                          ELSE @]
  /\ UNCHANGED <<now, user, apiUsage, responseCache, cache, requestStore, req,
                 call, sinceReset>>
  /\ UNCHANGED <<sessVars, unitVars>>

\* streamDeepSeekResponse, response.data.on("end"): with options.userId
\* (POST /chat/stream) trackUsage runs before the promise resolves
streamDeepSeekEnd ==
  /\ st.pc = "dsRead"
  /\ st.stream["deepseek"].pending = <<>>
  /\ LET s == [st EXCEPT !.stream["deepseek"].state = "ended"] IN
       st' = IF s.route = "chat" THEN [s EXCEPT !.pc = "dsTrackCreate"]
             ELSE IF isMerged(s) THEN mergedDeepSeekDone(s)
             ELSE routeEnd(s)
  /\ requestStore' = countStream(st')
  /\ UNCHANGED <<now, user, apiUsage, responseCache, cache, req, call,
                 sinceReset>>
  /\ UNCHANGED <<sessVars, unitVars>>

\* trackUsage for the stream, ApiUsage.create
streamTrackUsageCreate ==
  /\ st.pc = "dsTrackCreate"
  /\ apiUsage' = Append(apiUsage,
       [req |-> 0, model |-> "deepseek", tokensUsed |-> st.totalTokens,
        timestamp |-> now])
  /\ st' = [st EXCEPT !.pc = "dsTrackInc"]
  /\ UNCHANGED <<now, user, responseCache, cache, requestStore, req, call,
                 sinceReset>>
  /\ UNCHANGED <<sessVars, unitVars>>

\* trackUsage for the stream, $inc usageQuota.used; the promise resolves
streamTrackUsageInc ==
  /\ st.pc = "dsTrackInc"
  /\ user' = [user EXCEPT !.used = @ + st.totalTokens]
  /\ sinceReset' = sinceReset + st.totalTokens
  /\ st' = IF isMerged(st) THEN mergedDeepSeekDone(st) ELSE routeEnd(st)
  /\ UNCHANGED <<now, apiUsage, responseCache, cache, requestStore, req, call>>
  /\ UNCHANGED <<sessVars, unitVars>>

\* streamDeepSeekResponse, response.data.on("error")
streamDeepSeekError ==
  /\ st.pc = "dsRead"
  /\ st' = deepseekThrown([st EXCEPT !.stream["deepseek"].state = "failed"])
  /\ requestStore' = countStream(st')
  /\ UNCHANGED <<now, user, apiUsage, responseCache, cache, req, call,
                 sinceReset>>
  /\ UNCHANGED <<sessVars, unitVars>>

NextStream ==
  \/ streamRoute
  \/ streamOpenAICreate
  \/ streamOpenAIChunk
  \/ streamOpenAIEnd
  \/ streamOpenAIError
  \/ streamDeepSeekCreate
  \/ streamDeepSeekChunk
  \/ streamDeepSeekEnd
  \/ streamTrackUsageCreate
  \/ streamTrackUsageInc
  \/ streamDeepSeekError

SpecStream == Init /\ [][NextStream]_vars

\* ------------------------------------------------- claims on SpecStream

\* C9: in hybrid streaming the response is ended only when both provider
\* streams have ended or failed: while a provider's stream is open, or has
\* not been started yet, res.end() has not been called.
C9_EndOnlyAfterBothStreams ==
  (isMerged(st) /\ st.ended > 0) =>
    \A p \in Providers : st.stream[p].state \in {"ended", "failed"}

\* C9 witness: a hybrid stream request whose response was ended after both
\* provider streams delivered chunks and ended.
C9_Witness ==
  /\ isMerged(st) /\ st.pc = "done" /\ st.ended > 0
  /\ \A p \in Providers :
       st.stream[p].state = "ended" /\ Len(st.stream[p].got) = MaxDeltas

\* the delta events of provider p on the response, in order
RECURSIVE DeltaEvents(_, _)
DeltaEvents(out, models) ==
  IF out = <<>> THEN <<>>
  ELSE IF Head(out).kind = "delta" /\ Head(out).model \in models
    THEN <<Head(out)>> \o DeltaEvents(Tail(out), models)
    ELSE DeltaEvents(Tail(out), models)

\* what a correct merge forwards for the chunks got: one event per non-empty
\* delta, with the provider's running buffer
RECURSIVE ExpectedDeltas(_, _, _)
ExpectedDeltas(got, model, buffer) ==
  IF got = <<>> THEN <<>>
  ELSE IF Head(got) = "" THEN ExpectedDeltas(Tail(got), model, buffer)
  ELSE <<Event("delta", model, <<Head(got)>>, Append(buffer, Head(got)))>>
         \o ExpectedDeltas(Tail(got), model, Append(buffer, Head(got)))

\* C10: when a hybrid stream request is over with both provider streams
\* ended, the response holds every non-empty delta of each provider, tagged
\* with the provider and its buffer so far, and exactly one final merge
\* event, which is the last event.
C10_MergeCompleteness ==
  (isMerged(st) /\ st.pc = "done"
     /\ \A p \in Providers : st.stream[p].state = "ended") =>
    /\ DeltaEvents(st.out, {"openai"})
         = ExpectedDeltas(st.stream["openai"].got, "openai", <<>>)
    /\ DeltaEvents(st.out, {"deepseek"})
         = ExpectedDeltas(st.stream["deepseek"].got, "deepseek", <<>>)
    /\ Cardinality({i \in 1..Len(st.out) : st.out[i].kind = "final"}) = 1
    /\ st.out[Len(st.out)].kind = "final"

\* the number of non-empty deltas in a sequence of chunks
RECURSIVE NonEmptyCount(_)
NonEmptyCount(got) ==
  IF got = <<>> THEN 0
  ELSE (IF Head(got) = "" THEN 0 ELSE 1) + NonEmptyCount(Tail(got))

\* C11: in hybrid streaming the two provider streams are consumed
\* concurrently: while the OpenAI stream is open the DeepSeek stream has
\* been started too, and every non-empty delta a provider has delivered so
\* far has been forwarded to the caller, whatever the state of the other
\* provider.
C11_ConcurrentConsumption ==
  isMerged(st) =>
    /\ st.stream["openai"].state = "open"
         => st.stream["deepseek"].state # "notStarted"
    /\ Len(DeltaEvents(st.out, {"openai"}))
         = NonEmptyCount(st.stream["openai"].got)
    /\ Len(DeltaEvents(st.out, {"deepseek"}))
         = NonEmptyCount(st.stream["deepseek"].got)

\* C12: a hybrid stream request of which both provider streams failed is
\* over with a failure event as the last event of the response and without
\* a final merge event, and (on the route that counts requests) it was
\* counted as failed.
C12_BothFailEndsWithFailure ==
  (isMerged(st) /\ st.pc = "done"
     /\ \A p \in Providers : st.stream[p].state = "failed") =>
    /\ \A i \in 1..Len(st.out) : st.out[i].kind # "final"
    /\ st.out[Len(st.out)].kind = "error"
    /\ st.route = "ask" =>
         (requestStore.failed = 1 /\ requestStore.successful = 0)

\* ------------------------------------------------- sessions (SpecSession)

\* an event sent to a connection: {type, payload}. ex is the chat exchange
\* it belongs to; from, sid and bound are the sender, the target session id
\* and the sender's bound session id of a broadcast
Ev(type, ex, msg) ==
  [type |-> type, ex |-> ex, msg |-> msg, from |-> 0, sid |-> NoId,
   bound |-> NoId]

\* the mutation of send that does not look at readyState
sendAlways(cn, c, data) ==
  [cn EXCEPT ![c].events = Append(@, data)]

\* WebSocketService.send
send(cn, c, data) ==
  IF cn[c].readyState = "open"
    THEN [cn EXCEPT ![c].events = Append(@, data)]
    ELSE [cn EXCEPT ![c].dropped = TRUE]

\* WebSocketService.sendError
sendError(cn, c, ex, message) == send(cn, c, Ev("error", ex, message))

\* WebSocketService.broadcastToSession
broadcastToSession(cn, sessionId, data) ==
  [d \in Conns |->
     IF cn[d].inClients /\ cn[d].sessionId = sessionId
          /\ cn[d].readyState = "open"
       THEN [cn[d] EXCEPT !.events = Append(@, data)]
       ELSE cn[d]]

\* the frame of the session actions
httpVars == <<now, responseCache, cache, requestStore, req, call, st>>

\* wss.on("connection")
connection(c) ==
  /\ conn[c].readyState = "none"
  /\ conn' = [conn EXCEPT ![c].readyState = "open", ![c].inClients = TRUE,
                          ![c].isAlive = TRUE]
  /\ UNCHANGED <<unitVars, httpVars, user, apiUsage, sinceReset, hand, conversations,
                 rounds>>

\* the mutation of the pong handler that does not set isAlive
pongIgnored(c) ==
  /\ conn[c].readyState = "open"
  /\ conn[c].unanswered
  /\ conn' = [conn EXCEPT ![c].unanswered = FALSE]
  /\ UNCHANGED <<unitVars, httpVars, user, apiUsage, sinceReset, hand, conversations,
                 rounds>>

\* ws.on("pong")
pong(c) ==
  /\ conn[c].readyState = "open"
  /\ ~conn[c].isAlive
  /\ conn' = [conn EXCEPT ![c].isAlive = TRUE, ![c].unanswered = FALSE]
  /\ UNCHANGED <<unitVars, httpVars, user, apiUsage, sinceReset, hand, conversations,
                 rounds>>

\* the setInterval callback: every socket of wss.clients that has not
\* answered the last ping is terminated, the others are pinged
pingInterval ==
  /\ rounds < MaxRounds
  /\ rounds' = rounds + 1
  /\ conn' = [c \in Conns |->
                IF conn[c].readyState \notin {"open", "closing"} THEN conn[c]
                ELSE IF ~conn[c].isAlive
                  THEN [conn[c] EXCEPT !.readyState = "closing"]
                  ELSE [conn[c] EXCEPT !.isAlive = FALSE,
                                       !.unanswered = TRUE]]
  /\ UNCHANGED <<unitVars, httpVars, user, apiUsage, sinceReset, hand, conversations>>

\* ws.on("close"): the client closed the transport, or the socket that
\* terminate() destroyed has closed
close(c) ==
  /\ conn[c].readyState \in {"open", "closing"}
  /\ conn' = [conn EXCEPT ![c].readyState = "closed", ![c].inClients = FALSE,
                          ![c].closedAt = Len(conn[c].events)]
  /\ UNCHANGED <<unitVars, httpVars, user, apiUsage, sinceReset, hand, conversations,
                 rounds>>

\* the model preferences of session chat messages: OpenAI, or none, which
\* selects the user's default model (DeepSeek or hybrid)
SessPrefs == {"openai", "none"}
\* the tokens of an auth payload: none, one that jwt.verify rejects, or a
\* valid one, written as the userId it decodes to
Tokens == {"none", "bad"} \cup UserIds

\* the inbound messages so far
RECURSIVE inbound(_)
inbound(n) == IF n = 0 THEN 0 ELSE conn[n].msgs + inbound(n - 1)

\* the inbound message is counted, and noted as the connection's last one
received(c, type, sessionId) ==
  [conn EXCEPT ![c].msgs = @ + 1,
               ![c].lastIn = [type |-> type, sessionId |-> sessionId]]

\* the mutation of handleAuth that binds the session id before the token is
\* verified
handleAuthBindFirst(cn, c, token, sessionId) ==
  LET bound == [cn EXCEPT ![c].sessionId =
                  IF sessionId # NoId THEN sessionId ELSE Uuid(c)] IN
  IF token = "none"
    THEN sendError(cn, c, 0, "Authentication token required")
  ELSE IF token \notin UserIds
    THEN sendError(bound, c, 0, "Authentication failed")
  ELSE send([bound EXCEPT ![c].userId = token], c, Ev("auth_success", 0, token))

\* WebSocketService.handleAuth
handleAuth(cn, c, token, sessionId) ==
  IF token = "none"
    THEN sendError(cn, c, 0, "Authentication token required")
  ELSE IF token \notin UserIds
    THEN sendError(cn, c, 0, "Authentication failed")
  ELSE send([cn EXCEPT ![c].userId = token,
                       ![c].sessionId =
                          IF sessionId # NoId THEN sessionId ELSE Uuid(c)],
            c, Ev("auth_success", 0, token))

\* ws.on("message") with type "auth"
authMessage(c) ==
  /\ conn[c].readyState = "open"
  /\ inbound(NConn) < MaxMsgs
  /\ \E token \in Tokens, sessionId \in SuppliedIds \cup {NoId} :
       conn' = handleAuth(received(c, "auth", sessionId), c, token,
                          sessionId)
  /\ UNCHANGED <<unitVars, httpVars, user, apiUsage, sinceReset, hand, conversations,
                 rounds>>

\* the mutation of the handlers' first test that lets every connection pass
authRequiredNever(cn, c) == FALSE

\* if (!ws.userId) at the head of the chat, typing and history handlers
authRequired(cn, c) == cn[c].userId = ""

\* WebSocketService.handleTypingIndicator
handleTypingIndicator(cn, c, isTyping, sessionId) ==
  IF authRequired(cn, c)
    THEN sendError(cn, c, 0, "Authentication required")
    ELSE broadcastToSession(cn,
           IF sessionId # NoId THEN sessionId ELSE cn[c].sessionId,
           [type |-> "typing_indicator", ex |-> 0,
            msg |-> IF isTyping THEN "on" ELSE "off", from |-> c,
            sid |-> IF sessionId # NoId THEN sessionId ELSE cn[c].sessionId,
            bound |-> cn[c].sessionId])

\* ws.on("message") with type "typing"
typingMessage(c) ==
  /\ conn[c].readyState = "open"
  /\ inbound(NConn) < MaxMsgs
  /\ \E isTyping \in {TRUE}, sessionId \in SuppliedIds \cup {NoId} :
       conn' = handleTypingIndicator(received(c, "typing", NoId),
                                     c, isTyping, sessionId)
  /\ UNCHANGED <<unitVars, httpVars, user, apiUsage, sinceReset, hand, conversations,
                 rounds>>

\* ws.on("message") with type "message": handleChatMessage up to
\* await User.findById
chatMessage(c) ==
  /\ conn[c].readyState = "open"
  /\ inbound(NConn) < MaxMsgs
  /\ hand[c].pc = "idle"
  /\ \E pref \in SessPrefs, sessionId \in SuppliedIds \cup {NoId},
        message \in BOOLEAN :
       LET cn == received(c, "message", NoId) IN
         IF authRequired(conn, c)
           THEN /\ conn' = sendError(cn, c, 0, "Authentication required")
                /\ UNCHANGED hand
         ELSE IF ~message
           THEN /\ conn' = sendError(cn, c, 0, "Message content required")
                /\ UNCHANGED hand
         ELSE /\ conn' = cn
              /\ hand' = [hand EXCEPT ![c] =
                   [NoHandler EXCEPT
                      !.pc = "findUser", !.ex = hand[c].ex + 1,
                      !.sid = IF sessionId # NoId THEN sessionId
                              ELSE conn[c].sessionId,
                      !.bound = conn[c].sessionId, !.pref = pref]]
  /\ UNCHANGED <<unitVars, httpVars, user, apiUsage, sinceReset, conversations, rounds>>

\* the mutation of rejectExchange that also closes the connection
rejectExchangeAndClose(cn, c, ex, message) ==
  [sendError(cn, c, ex, message) EXCEPT
     ![c].readyState = IF @ = "open" THEN "closing" ELSE @]

\* handleChatMessage: return this.sendError(ws, ...) for a message over
\* quota and for a message all of whose providers failed
rejectExchange(cn, c, ex, message) == sendError(cn, c, ex, message)

\* the handler of connection c is over with the given outcome
finished(c, outcome) ==
  [hand EXCEPT ![c].pc = "idle", ![c].last = outcome]

\* handleChatMessage, the quota comparison on the loaded user
chatQuota(c) ==
  /\ hand[c].pc = "findUser"
  /\ IF user.used >= user.monthly
       THEN /\ conn' = rejectExchange(conn, c, hand[c].ex,
                                      "Monthly usage quota exceeded")
            /\ hand' = finished(c, "quota")
       ELSE /\ hand' = [hand EXCEPT ![c].pc = "saveUser"]
            /\ UNCHANGED conn
  /\ UNCHANGED <<unitVars, httpVars, user, apiUsage, sinceReset, conversations, rounds>>

\* a message of the conversation: its role, and the connection, exchange
\* and bound session id of the chat message that wrote it
Turn(c, role) ==
  [role |-> role, conn |-> c, ex |-> hand[c].ex, bound |-> hand[c].bound]

\* handleChatMessage: the acknowledgment and the typing indicator
acknowledge(cn, c, ex) ==
  send(send(cn, c, Ev("message_received", ex, "")),
       c, Ev("typing_indicator", ex, "on"))

\* the mutation of respond that stops the typing indicator before the
\* response is sent
respondTypingFirst(cn, c, ex, modelUsed) ==
  send(send(cn, c, Ev("typing_indicator", ex, "off")),
       c, Ev("message", ex, modelUsed))

\* handleChatMessage: the complete response, then the typing indicator off
respond(cn, c, ex, modelUsed) ==
  send(send(cn, c, Ev("message", ex, modelUsed)),
       c, Ev("typing_indicator", ex, "off"))

\* handleChatMessage: Conversation.findOne, the user message is pushed and
\* saved; then the acknowledgment, the typing indicator and the provider
\* calls. A failing save is caught at the end of the handler
chatSaveUser(c) ==
  /\ hand[c].pc = "saveUser"
  /\ \/ /\ conversations' =
             [conversations EXCEPT ![hand[c].sid] = Append(@, Turn(c, "user"))]
        /\ conn' = acknowledge(conn, c, hand[c].ex)
        /\ LET model == wsModel(hand[c].pref) IN
             hand' = [hand EXCEPT
                        ![c].pc = "calls", ![c].model = model,
                        ![c].invoked = wsPlan(model),
                        ![c].res = [p \in Providers |->
                           IF p \in wsPlan(model) THEN "pending" ELSE "idle"]]
     \/ /\ conn' = sendError(conn, c, hand[c].ex, "Failed to process message: save failed")
        /\ hand' = finished(c, "error")
        /\ UNCHANGED conversations
  /\ UNCHANGED <<unitVars, httpVars, user, apiUsage, sinceReset, rounds>>

\* getOpenAIResponse called by handleChatMessage settles
sessOpenAI(c) ==
  /\ hand[c].pc = "calls"
  /\ hand[c].res["openai"] = "pending"
  /\ \E outcome \in {"ok", "failed"} :
       hand' = [hand EXCEPT ![c].res["openai"] = outcome]
  /\ UNCHANGED <<unitVars, httpVars, user, apiUsage, sinceReset, conn, conversations,
                 rounds>>

\* getDeepSeekResponse called by handleChatMessage: the request succeeds
\* with its token count, or fails after the retries
sessDeepSeek(c) ==
  /\ hand[c].pc = "calls"
  /\ hand[c].res["deepseek"] = "pending"
  /\ \/ \E t \in 1..MaxTok :
          hand' = [hand EXCEPT ![c].res["deepseek"] = "track",
                               ![c].tokens = t]
     \/ hand' = [hand EXCEPT ![c].res["deepseek"] = "failed"]
  /\ UNCHANGED <<unitVars, httpVars, user, apiUsage, sinceReset, conn, conversations,
                 rounds>>

\* trackUsage of that call: the record and the increment; afterClose notes
\* that the connection was no longer open
sessTrackUsage(c) ==
  /\ hand[c].pc = "calls"
  /\ hand[c].res["deepseek"] = "track"
  /\ apiUsage' = Append(apiUsage,
       [conn |-> c, ex |-> hand[c].ex, model |-> "deepseek",
        tokensUsed |-> hand[c].tokens,
        afterClose |-> conn[c].readyState # "open"])
  /\ user' = [user EXCEPT !.used = @ + hand[c].tokens]
  /\ sinceReset' = sinceReset + hand[c].tokens
  /\ hand' = [hand EXCEPT ![c].res["deepseek"] = "ok"]
  /\ UNCHANGED <<unitVars, httpVars, conn, conversations, rounds>>

\* the modelUsed of the response
sessModelUsed(h) ==
  IF h.model = "hybrid"
    THEN IF \A p \in Providers : h.res[p] = "ok"
           THEN "hybrid (deepseek + openai)"
         ELSE IF h.res["deepseek"] = "ok" THEN "deepseek" ELSE "openai"
  ELSE IF startsWithDeepseek(h.model) THEN h.model
  ELSE "openai"

\* handleChatMessage after the awaited calls: all failed is answered with an
\* error (by the hybrid branch, or by the catch block when the one awaited
\* call throws); otherwise the assistant message is pushed and the save starts
chatRespond(c) ==
  /\ hand[c].pc = "calls"
  /\ \A p \in hand[c].invoked : hand[c].res[p] \in {"ok", "failed"}
  /\ IF \A p \in hand[c].invoked : hand[c].res[p] = "failed"
       THEN /\ conn' = rejectExchange(conn, c, hand[c].ex,
                      IF hand[c].model = "hybrid"
                        THEN "All AI models failed to respond"
                        ELSE "Failed to process message: provider error")
            /\ hand' = finished(c, "failed")
       ELSE /\ hand' = [hand EXCEPT ![c].pc = "saveAssistant"]
            /\ UNCHANGED conn
  /\ UNCHANGED <<unitVars, httpVars, user, apiUsage, sinceReset, conversations, rounds>>

\* handleChatMessage after the second conversation.save(): the response and
\* the typing indicator off; a failing save is caught
chatSaveAssistant(c) ==
  /\ hand[c].pc = "saveAssistant"
  /\ \/ /\ conversations' =
             [conversations EXCEPT
                ![hand[c].sid] = Append(@, Turn(c, "assistant"))]
        /\ conn' = respond(conn, c, hand[c].ex, sessModelUsed(hand[c]))
        /\ hand' = finished(c, "ok")
     \/ /\ conn' = sendError(conn, c, hand[c].ex, "Failed to process message: save failed")
        /\ hand' = finished(c, "error")
        /\ UNCHANGED conversations
  /\ UNCHANGED <<unitVars, httpVars, user, apiUsage, sinceReset, rounds>>

\* ws.on("message") with type "history": handleHistoryRequest up to
\* await Conversation.findOne
historyMessage(c) ==
  /\ conn[c].readyState = "open"
  /\ inbound(NConn) < MaxMsgs
  /\ hand[c].pc = "idle"
  /\ \E sessionId \in SuppliedIds \cup {NoId} :
       LET cn == received(c, "history", NoId) IN
         IF authRequired(conn, c)
           THEN /\ conn' = sendError(cn, c, 0, "Authentication required")
                /\ UNCHANGED hand
           ELSE /\ conn' = cn
                /\ hand' = [hand EXCEPT
                     ![c].pc = "history",
                     ![c].sid = IF sessionId # NoId THEN sessionId
                                ELSE conn[c].sessionId]
  /\ UNCHANGED <<unitVars, httpVars, user, apiUsage, sinceReset, conversations, rounds>>

\* handleHistoryRequest after the query: the history event, or the error
\* of a failed query
historyReply(c) ==
  /\ hand[c].pc = "history"
  /\ \/ conn' = send(conn, c, [Ev("history", 0, "messages")
                                 EXCEPT !.sid = hand[c].sid])
     \/ conn' = sendError(conn, c, 0, "Failed to get history")
  /\ hand' = [hand EXCEPT ![c].pc = "idle"]
  /\ UNCHANGED <<unitVars, httpVars, user, apiUsage, sinceReset, conversations, rounds>>

NextSession ==
  \/ pingInterval
  \/ \E c \in Conns : connection(c)
  \/ \E c \in Conns : pong(c)
  \/ \E c \in Conns : close(c)
  \/ \E c \in Conns : authMessage(c)
  \/ \E c \in Conns : typingMessage(c)
  \/ \E c \in Conns : chatMessage(c)
  \/ \E c \in Conns : chatQuota(c)
  \/ \E c \in Conns : chatSaveUser(c)
  \/ \E c \in Conns : sessOpenAI(c)
  \/ \E c \in Conns : sessDeepSeek(c)
  \/ \E c \in Conns : sessTrackUsage(c)
  \/ \E c \in Conns : chatRespond(c)
  \/ \E c \in Conns : chatSaveAssistant(c)
  \/ \E c \in Conns : historyMessage(c)
  \/ \E c \in Conns : historyReply(c)

SpecSession == Init /\ [][NextSession]_vars

\* ------------------------------------------------- claims on SpecSession

\* C13: a connection that has closed (the client closed it, or it was
\* terminated by the liveness probe) is no longer in the client set, and no
\* event has been delivered to it since it closed, whatever handler was
\* still working for it.
C13_NoEventAfterClose ==
  \A c \in Conns :
    conn[c].readyState = "closed" =>
      /\ ~conn[c].inClients
      /\ Len(conn[c].events) = conn[c].closedAt

\* C13 witness: a connection closed while its chat message was in flight;
\* the exchange then completed (the assistant message was saved and the
\* response passed to send), and nothing was delivered.
C13_Witness ==
  \E c \in Conns :
    /\ conn[c].readyState = "closed" /\ conn[c].dropped
    /\ hand[c].pc = "idle" /\ hand[c].last = "ok"
    /\ \A i \in 1..Len(conn[c].events) : conn[c].events[i].type # "message"

\* C14: a provider call whose connection closed before the call completed
\* is cancelled: it writes no usage record (and so adds nothing to the
\* identity's used counter).
C14_CancelledCallUnrecorded ==
  \A i \in 1..Len(apiUsage) : ~apiUsage[i].afterClose

\* the step ends a chat exchange of connection c that was rejected for
\* quota or all of whose provider calls failed
FailedExchange(c) ==
  /\ hand[c].pc \in {"findUser", "calls"}
  /\ hand'[c].pc = "idle"
  /\ hand'[c].last \in {"quota", "failed"}

\* the events of connection c that belong to its exchange ex and have one
\* of the types
ExchangeEvents(events, ex, types) ==
  {i \in 1..Len(events) : events[i].ex = ex /\ events[i].type \in types}

\* C15: a chat exchange that fails (over quota, or every selected provider
\* failed) leaves the connection as it was: open or not as before, same
\* identity, same session id, the handler free for the next message; an open
\* connection gets exactly one error event and no message event for the
\* exchange.
C15_FailedExchangeKeepsSession ==
  [][\A c \in Conns :
       FailedExchange(c) =>
         /\ conn'[c].readyState = conn[c].readyState
         /\ conn'[c].userId = conn[c].userId
         /\ conn'[c].sessionId = conn[c].sessionId
         /\ conn[c].readyState = "open" =>
              /\ Cardinality(ExchangeEvents(conn'[c].events, hand[c].ex,
                                            {"error"})) = 1
              /\ ExchangeEvents(conn'[c].events, hand[c].ex, {"message"}) = {}
              /\ Len(conn'[c].events) = Len(conn[c].events) + 1]_vars

\* C15 witness: an open connection whose first exchange failed with an error
\* event and whose second exchange was answered with a message event.
C15_Witness ==
  \E c \in Conns :
    /\ conn[c].readyState = "open" /\ hand[c].pc = "idle" /\ hand[c].ex = 2
    /\ \E i \in ExchangeEvents(conn[c].events, 1, {"error"}) :
         conn[c].events[i].msg \in {"All AI models failed to respond",
                                    "Failed to process message: provider error",
                                    "Monthly usage quota exceeded"}
    /\ ExchangeEvents(conn[c].events, 1, {"message"}) = {}
    /\ ExchangeEvents(conn[c].events, 2, {"message"}) # {}

\* C16: a connection without a bound identity has caused nothing but error
\* events: no handler of it got past the identity test (no provider call,
\* no conversation read or write), each of its inbound messages was answered
\* with exactly one error event, no message of a conversation, no usage
\* record and no broadcast comes from it; and a connection that has an
\* identity got it by a successful auth.
C16_UnauthenticatedInert ==
  \A c \in Conns :
    IF conn[c].userId = ""
      THEN /\ hand[c] = NoHandler
           /\ Len(conn[c].events) = conn[c].msgs
           /\ \A i \in 1..Len(conn[c].events) : conn[c].events[i].type = "error"
           /\ \A sid \in SessionIds : \A i \in 1..Len(conversations[sid]) :
                conversations[sid][i].conn # c
           /\ \A i \in 1..Len(apiUsage) : apiUsage[i].conn # c
           /\ \A d \in Conns : \A i \in 1..Len(conn[d].events) :
                conn[d].events[i].from # c
      ELSE \E i \in 1..Len(conn[c].events) :
             /\ conn[c].events[i].type = "auth_success"
             /\ conn[c].events[i].msg = conn[c].userId

\* C16 witness: a connection without identity that sent several messages,
\* none of them an auth, the last one a chat message, and was told each time
\* that authentication is required.
C16_Witness ==
  \E c \in Conns :
    /\ conn[c].userId = "" /\ conn[c].msgs >= 2
    /\ conn[c].lastIn.type = "message"
    /\ Len(conn[c].events) = conn[c].msgs
    /\ \A i \in 1..Len(conn[c].events) :
         conn[c].events[i].msg = "Authentication required"

\* the step handles an auth message of connection c
AuthAttempt(c) ==
  /\ conn'[c].msgs = conn[c].msgs + 1
  /\ conn'[c].lastIn.type = "auth"

\* C17: an auth attempt sends the connection exactly one event. When that
\* is an error event (token missing or rejected), identity, session id and
\* readyState of the connection are what they were. When it is auth_success,
\* an identity is bound and the session id is the supplied one, or a fresh
\* one when none was supplied.
C17_AuthAttempt ==
  [][\A c \in Conns :
       AuthAttempt(c) =>
         LET last == conn'[c].events[Len(conn'[c].events)] IN
           /\ Len(conn'[c].events) = Len(conn[c].events) + 1
           /\ last.type \in {"error", "auth_success"}
           /\ conn'[c].readyState = conn[c].readyState
           /\ last.type = "error" =>
                /\ conn'[c].userId = conn[c].userId
                /\ conn'[c].sessionId = conn[c].sessionId
           /\ last.type = "auth_success" =>
                /\ conn'[c].userId \in UserIds
                /\ conn'[c].sessionId # NoId
                /\ conn'[c].sessionId =
                     IF conn'[c].lastIn.sessionId # NoId
                       THEN conn'[c].lastIn.sessionId ELSE Uuid(c)]_vars

\* C17 witness: a connection whose first auth attempt was rejected and left
\* it without identity, and whose second attempt succeeded.
C17_Witness ==
  \E c \in Conns :
    /\ Len(conn[c].events) >= 2
    /\ conn[c].events[1].msg = "Authentication failed"
    /\ conn[c].events[2].type = "auth_success"
    /\ conn[c].userId \in UserIds /\ conn[c].sessionId # NoId

\* the kinds of the events of exchange ex that the connection got, in order
RECURSIVE ExchangeSeq(_, _)
ExchangeSeq(events, ex) ==
  IF events = <<>> THEN <<>>
  ELSE IF Head(events).ex = ex /\ Head(events).from = 0
    THEN <<IF Head(events).type = "typing_indicator"
             THEN "typing " \o Head(events).msg ELSE Head(events).type>>
           \o ExchangeSeq(Tail(events), ex)
    ELSE ExchangeSeq(Tail(events), ex)

\* C18: the events of a chat exchange come in the order message_received,
\* typing on, message, typing off. While the provider calls of an open
\* connection's exchange are under way it has got the acknowledgment and
\* typing on and nothing else; an exchange that got its message event got
\* all four events in that order, and its provider calls had all completed.
C18_ExchangeOrder ==
  \A c \in Conns : \A ex \in 1..hand[c].ex :
    LET got == ExchangeSeq(conn[c].events, ex) IN
      /\ (ex = hand[c].ex /\ hand[c].pc = "calls"
            /\ conn[c].readyState = "open")
           => got = <<"message_received", "typing on">>
      /\ (\E i \in 1..Len(got) : got[i] = "message") =>
           /\ got = <<"message_received", "typing on", "message", "typing off">>
           /\ ex = hand[c].ex =>
                /\ hand[c].pc \in {"idle", "history"}
                /\ \A p \in hand[c].invoked : hand[c].res[p] \in {"ok", "failed"}

\* C18 witness: an open connection whose hybrid exchange was answered, both
\* provider calls fulfilled, and which got the four events.
C18_Witness ==
  \E c \in Conns :
    /\ conn[c].readyState = "open" /\ hand[c].last = "ok"
    /\ hand[c].invoked = Providers
    /\ \A p \in Providers : hand[c].res[p] = "ok"
    /\ ExchangeSeq(conn[c].events, hand[c].ex)
         = <<"message_received", "typing on", "message", "typing off">>

\* C19: every message of a conversation was written by a chat message whose
\* connection was bound to that conversation's session id, and an exchange
\* that was answered has its user turn and its assistant turn in the
\* conversation of the bound session id.
C19_TurnsUnderBoundSession ==
  /\ \A sid \in SessionIds : \A i \in 1..Len(conversations[sid]) :
       conversations[sid][i].bound = sid
  /\ \A c \in Conns :
       hand[c].last = "ok" =>
         \A role \in {"user", "assistant"} :
           \E i \in 1..Len(conversations[hand[c].bound]) :
             conversations[hand[c].bound][i]
               = [role |-> role, conn |-> c, ex |-> hand[c].ex,
                  bound |-> hand[c].bound]

\* the step handles a typing message of the authenticated connection c
TypingStep(c) ==
  /\ conn'[c].msgs = conn[c].msgs + 1
  /\ conn'[c].lastIn.type = "typing"
  /\ conn[c].userId # ""

\* C20: a typing message of an authenticated connection adds one event to
\* every other open connection that has the sender's session id, adds
\* nothing to the sender and to the connections of other sessions, and
\* leaves the conversations alone.
C20_TypingBroadcast ==
  [][\A c \in Conns :
       TypingStep(c) =>
         /\ conversations' = conversations
         /\ \A d \in Conns :
              Len(conn'[d].events) =
                IF d # c /\ conn[d].readyState = "open"
                     /\ conn[d].sessionId = conn[c].sessionId
                  THEN Len(conn[d].events) + 1
                  ELSE Len(conn[d].events)]_vars

\* C21: at a probe round every open connection that has not answered the
\* ping of the round before is terminated, and only those: every other open
\* connection stays open, has its liveness flag cleared and a ping sent. So
\* a connection that stops answering is terminated at the second round, and
\* one that answers every ping is not terminated by the probe.
C21_LivenessProbe ==
  [][rounds' = rounds + 1 =>
       \A c \in Conns :
         conn[c].readyState = "open" =>
           IF conn[c].unanswered
             THEN conn'[c].readyState = "closing"
             ELSE /\ conn'[c].readyState = "open"
                  /\ ~conn'[c].isAlive
                  /\ conn'[c].unanswered]_vars

\* C21 witness: after two probe rounds one connection has been terminated
\* for not answering, and another one has passed the probe and is open with
\* a ping sent.
C21_Witness ==
  /\ rounds = 2
  /\ \E c \in Conns, d \in Conns :
       /\ conn[c].readyState = "closing"
       /\ conn[d].readyState = "open" /\ conn[d].unanswered

\* C22: the preference is part of the cache key: whenever a request that
\* names one provider is answered from the cache, the entry it is answered
\* from was stored by a request with the same preference (a request for
\* openai is never answered from an entry stored for deepseek or hybrid).
C22_PreferenceInFingerprint ==
  [][\A r \in DOMAIN req :
       (req[r].outcome # "cached" /\ req'[r].outcome = "cached"
          /\ req[r].pref \in Providers) =>
         \E e \in (IF req[r].route = "ask"
                     THEN cacheGet(responseCache, askCacheKey(r))
                     ELSE chatCacheGet(chatCacheKey(r))) :
           e.value = req'[r].result /\ e.pref = req[r].pref]_vars

\* C23: a failure to store in the cache does not fail the request: a
\* finished POST / request whose provider calls were fulfilled returned its
\* result (outcome ok), also when the cache was full, and the requests
\* counted as failed are those of which a provider call failed.
C23_CacheFailureNotFatal ==
  /\ \A r \in DOMAIN req :
       (req[r].pc = "done" /\ req[r].route = "ask" /\ req[r].invoked # {}
          /\ \A p \in req[r].invoked : call[r][p].state = "ok") =>
         req[r].outcome = "ok"
  /\ requestStore.failed
       = Cardinality({r \in DOMAIN req :
                        /\ req[r].pc = "done"
                        /\ \E p \in req[r].invoked :
                             call[r][p].state = "failed"})

\* ------------------------------------------------- SpecMerge
\* one call of mergeResponses on two texts of at most MaxTextLen characters

Texts == SeqsUpTo({"a", "b"}, MaxTextLen)

InitMerge ==
  /\ InitProg(NReq)
  /\ \E o \in Texts, d \in Texts :
       mrg = [openaiResponse |-> o, deepseekResponse |-> d, merged |-> <<>>,
              pc |-> "call"]
  /\ bo = NoBackOff
  /\ opt = NoOptions

\* mergedResponse = mergeResponses(openaiResponse, deepseekResponse)
callMergeResponses ==
  /\ mrg.pc = "call"
  /\ mrg' = [mrg EXCEPT !.merged = mergeResponses(mrg.openaiResponse,
                                                  mrg.deepseekResponse),
                        !.pc = "returned"]
  /\ UNCHANGED <<progVars, sessVars, bo, opt>>

NextMerge == callMergeResponses

SpecMerge == InitMerge /\ [][NextMerge]_vars

\* the longer and the shorter of two texts (the first one when equally long)
Longer(a, b) == IF Len(a) >= Len(b) THEN a ELSE b
Shorter(a, b) == IF Len(a) >= Len(b) THEN b ELSE a

\* C24: mergeResponses of two non-empty texts is the longer text followed by
\* the note that the other provider's shorter text was left out exactly when
\* the longer one has more than 1.5 times the length of the shorter one, and
\* the side-by-side presentation of both otherwise (so for equal lengths).
C24_MergeByLength ==
  LET o == mrg.openaiResponse
      d == mrg.deepseekResponse
      note == IF Len(o) > Len(d)
                THEN <<"\n\n(DeepSeek provided a shorter response that was not included)">>
                ELSE <<"\n\n(OpenAI provided a shorter response that was not included)">>
      sideBySide == <<"\n## OpenAI Response\n">> \o o
                      \o <<"\n\n## DeepSeek Response\n">> \o d
                      \o <<"\n\n## Combined Analysis\n">>
  IN (mrg.pc = "returned" /\ o # <<>> /\ d # <<>>) =>
       IF 2 * Len(Longer(o, d)) > 3 * Len(Shorter(o, d))
         THEN mrg.merged = Longer(o, d) \o note
         ELSE mrg.merged = sideBySide

\* C24 witness: mergeResponses has returned for a text of 2 and a text of 3
\* characters, the longer being exactly 1.5 times the shorter.
C24_Witness ==
  /\ mrg.pc = "returned"
  /\ Len(mrg.openaiResponse) = 2
  /\ Len(mrg.deepseekResponse) = 3

\* C25: mergeResponses returns the other text when one of the two is empty;
\* with both empty the result is the empty text.
C25_EmptySideReturnsOther ==
  mrg.pc = "returned" =>
    /\ (mrg.openaiResponse = <<>> => mrg.merged = mrg.deepseekResponse)
    /\ (mrg.deepseekResponse = <<>> => mrg.merged = mrg.openaiResponse)

\* ------------------------------------------------- SpecRetry
\* one completion asked of one provider client, synchronous (under backOff)
\* or streaming; an attempt is one call of the function that sends the
\* request to the provider

\* the options handed to backOff
NumOfAttempts == 3
StartingDelay == 1000
TimeMultiple == 2

\* what a failed attempt may have met: timeout, 5xx, 429, other 4xx
Failures == {"timeout", "server", "rateLimit", "validation"}
Modes == {"sync", "stream"}

\* the retry callback of both clients
retry(e) == TRUE

\* getOpenAIResponse / getDeepSeekResponse, streamOpenAIResponse /
\* streamDeepSeekResponse are called
invokeClient(p, mode) ==
  /\ bo.pc = "idle"
  /\ bo' = [NoBackOff EXCEPT !.pc = "request", !.provider = p, !.mode = mode]
  /\ UNCHANGED <<progVars, sessVars, mrg, opt>>

\* backOff runs the request once more: it returns the completion, or the
\* failure goes to the retry callback and the attempt limit
backOffRequest(p) ==
  /\ bo.pc = "request" /\ bo.mode = "sync" /\ bo.provider = p
  /\ \/ bo' = [bo EXCEPT !.attempts = @ + 1, !.pc = "done",
                         !.result = <<"ok">>]
     \/ \E e \in Failures :
          bo' = [bo EXCEPT
                   !.attempts = @ + 1,
                   !.attemptNumber = @ + 1,
                   !.errors = Append(@, e),
                   !.pc = IF ~retry(e) \/ bo.attemptNumber + 1 >= NumOfAttempts
                            THEN "done" ELSE "delay",
                   !.result = IF ~retry(e)
                                   \/ bo.attemptNumber + 1 >= NumOfAttempts
                                THEN <<p, "API error", e>> ELSE <<>>]
  /\ UNCHANGED <<progVars, sessVars, mrg, opt>>

\* backOff waits startingDelay * timeMultiple ^ (attempts made - 1)
backOffDelay ==
  /\ bo.pc = "delay"
  /\ bo' = [bo EXCEPT
              !.delays = Append(@, StartingDelay
                                     * TimeMultiple ^ (bo.attemptNumber - 1)),
              !.pc = "request"]
  /\ UNCHANGED <<progVars, sessVars, mrg, opt>>

\* the streaming clients send their request outside backOff: the completion
\* streams, or the catch block reports the failure
streamRequest(p) ==
  /\ bo.pc = "request" /\ bo.mode = "stream" /\ bo.provider = p
  /\ \/ bo' = [bo EXCEPT !.attempts = @ + 1, !.pc = "done",
                         !.result = <<"ok">>]
     \/ \E e \in Failures :
          bo' = [bo EXCEPT !.attempts = @ + 1,
                           !.errors = Append(@, e),
                           !.pc = "done",
                           !.result = <<p, "streaming error", e>>]
  /\ UNCHANGED <<progVars, sessVars, mrg, opt>>

NextRetry ==
  \/ \E p \in Providers, mode \in Modes : invokeClient(p, mode)
  \/ \E p \in Providers : backOffRequest(p)
  \/ backOffDelay
  \/ \E p \in Providers : streamRequest(p)

SpecRetry == Init /\ [][NextRetry]_vars

\* the failures that are worth another attempt
Transient == {"timeout", "server", "rateLimit"}

\* C26: a finished call, synchronous or streaming, of which every attempt
\* failed transiently was attempted exactly 3 times, waited 1 and then 2
\* time units (of 1000 ms) between the attempts and failed with an error
\* that names the provider; no call is attempted more than 3 times.
C26_SameRetryPolicy ==
  /\ bo.attempts <= 3
  /\ (bo.pc = "done" /\ bo.errors # <<>> /\ bo.result # <<"ok">>
        /\ \A i \in 1..Len(bo.errors) : bo.errors[i] \in Transient) =>
       /\ bo.attempts = 3
       /\ bo.delays = <<1000, 2000>>
       /\ bo.result[1] = bo.provider

\* C27: after an attempt that failed with a validation failure no further
\* attempt is made: the call is finished with its failure.
C27_ValidationNotRetried ==
  \A i \in 1..Len(bo.errors) :
    bo.errors[i] = "validation" =>
      /\ bo.attempts = i
      /\ bo.pc = "done"
      /\ bo.result # <<"ok">>

\* C28: a streaming request ends its response exactly once whatever the
\* outcome: res.end() is never called a second time on a response the
\* merged stream has ended, and a finished request, also one whose single
\* provider failed, has had its response ended.
C28_EndedExactlyOnce ==
  /\ st.ended <= 1
  /\ st.pc = "done" => st.ended = 1

\* C29: on a connection that is open, every exchange of chat handling that
\* has finished and got the typing indicator switched on also got it
\* switched off afterwards, whether the exchange was answered, every
\* provider failed, or the assistant message could not be saved.
C29_TypingSwitchedOff ==
  \A c \in Conns : \A ex \in 1..hand[c].ex :
    LET got == ExchangeSeq(conn[c].events, ex) IN
      (conn[c].readyState = "open"
         /\ (ex < hand[c].ex \/ hand[c].pc \in {"idle", "history"})) =>
        \A i \in 1..Len(got) :
          got[i] = "typing on" =>
            \E j \in (i + 1)..Len(got) : got[j] = "typing off"

\* ------------------------------------------------- SpecOptions
\* one request body's temperature and maxTokens on their way through
\* validateRequest, the route's options and the provider client's request.
\* Temperatures are counted in tenths.

\* validateRequest: temperature within 0 and 2, maxTokens within 1 and 8000
TemperatureMax == 20
TokensMin == 1
TokensMax == 8000
\* the defaults of the routes and of the clients: 0.7, 4000, and
\* MODEL_CAPABILITIES["deepseek-v3"].maxTokens
DefaultTemperature == 7
DefaultMaxTokens == 4000
DeepSeekV3MaxTokens == 8192

\* a field of the request body: absent, or a number
Undefined == [given |-> FALSE, v |-> 0]
Given(x) == [given |-> TRUE, v |-> x]

\* the bodies tried: every temperature from -0.1 to 2.1, and maxTokens at
\* and around the limits
TemperatureInputs == {Undefined} \cup {Given(t) : t \in (0 - 1)..(TemperatureMax + 1)}
MaxTokensInputs ==
  {Undefined} \cup {Given(n) : n \in {0, TokensMin, DefaultMaxTokens,
                                      TokensMax, TokensMax + 1}}

InitOptions ==
  /\ InitProg(NReq)
  /\ mrg = NoMerge
  /\ bo = NoBackOff
  /\ \E t \in TemperatureInputs, n \in MaxTokensInputs, p \in Providers :
       opt = [NoOptions EXCEPT !.pc = "validate", !.provider = p,
                               !.temperature = t, !.maxTokens = n]

\* x || d on a field of the body: d when x is undefined or 0
orDefault(x, d) == IF ~x.given \/ x.v = 0 THEN d ELSE x.v
\* x || d on a number
numOrDefault(x, d) == IF x = 0 THEN d ELSE x

\* validateRequest: 400 for a temperature or maxTokens out of range
validateRequest ==
  /\ opt.pc = "validate"
  /\ opt' = [opt EXCEPT !.pc =
               IF \/ opt.temperature.given
                       /\ (opt.temperature.v < 0
                             \/ opt.temperature.v > TemperatureMax)
                  \/ opt.maxTokens.given
                       /\ (opt.maxTokens.v < TokensMin
                             \/ opt.maxTokens.v > TokensMax)
                 THEN "rejected" ELSE "route"]
  /\ UNCHANGED <<progVars, sessVars, mrg, bo>>

\* the routes: options = {temperature: temperature || 0.7,
\* maxTokens: maxTokens || 4000}
setUpOptions ==
  /\ opt.pc = "route"
  /\ opt' = [opt EXCEPT
               !.options = [temperature |-> orDefault(opt.temperature,
                                                      DefaultTemperature),
                            maxTokens |-> orDefault(opt.maxTokens,
                                                    DefaultMaxTokens)],
               !.pc = "client"]
  /\ UNCHANGED <<progVars, sessVars, mrg, bo>>

\* the clients' request body: temperature: options?.temperature || 0.7,
\* max_tokens: options?.maxTokens || the client's default
sendCompletion(p) ==
  /\ opt.pc = "client" /\ opt.provider = p
  /\ opt' = [opt EXCEPT
               !.sent = [temperature |-> numOrDefault(opt.options.temperature,
                                                      DefaultTemperature),
                         max_tokens |->
                           numOrDefault(opt.options.maxTokens,
                                        IF p = "openai" THEN DefaultMaxTokens
                                        ELSE DeepSeekV3MaxTokens)],
               !.pc = "sent"]
  /\ UNCHANGED <<progVars, sessVars, mrg, bo>>

NextOptions ==
  \/ validateRequest
  \/ setUpOptions
  \/ \E p \in Providers : sendCompletion(p)

SpecOptions == InitOptions /\ [][NextOptions]_vars

\* C30: a request that passed validation with a temperature and a maxTokens
\* of its own reaches the provider with exactly these values, temperature 0
\* included.
C30_SuppliedOptionsUnchanged ==
  (opt.pc = "sent" /\ opt.temperature.given /\ opt.maxTokens.given) =>
    /\ opt.sent.temperature = opt.temperature.v
    /\ opt.sent.max_tokens = opt.maxTokens.v

====
